---- MODULE Spec2Model ----
(***************************************************************************)
(* Model of mdforce.terms_multi_vectorized: the batch dispatch layer that  *)
(* evaluates one force-field term between a target particle 'i' and a      *)
(* batch of particles 'js'.                                                *)
(*                                                                         *)
(* Numbers.  The program computes with numpy float64.  The model computes  *)
(* with exact extended rationals <<n, d>>: d > 0 and gcd(n, d) = 1 for a   *)
(* finite value, <<1, 0>> and <<-1, 0>> for +inf and -inf, <<0, 0>> for    *)
(* NaN.  The arithmetic follows IEEE-754 on the special values (x/0 = inf, *)
(* 0/0 = inf - inf = 0 * inf = NaN, NaN absorbs); rounding and the sign of *)
(* zero are not modelled.  Inputs are restricted to coordinates whose      *)
(* distances have an exact square root.                                    *)
(***************************************************************************)
EXTENDS Integers, Sequences, FiniteSets, TLC

\* --------------------------------------------------------------- bounds
\* Largest number of partner particles 'js' in one call.
MaxN == 2

\* Number of spatial dimensions 'm' (the tests draw x-y-z coordinates).
Dim == 3

\* ------------------------------------------------- extended rationals
Abs(x) == IF x < 0 THEN -x ELSE x

Sign(x) == IF x < 0 THEN -1 ELSE IF x > 0 THEN 1 ELSE 0

RECURSIVE GCD(_, _)
GCD(a, b) == IF b = 0 THEN a ELSE GCD(b, a % b)

\* The value n/d in canonical form; d = 0 gives +inf, -inf or NaN.
Normalize(n, d) ==
    IF d = 0 THEN <<Sign(n), 0>>
    ELSE LET g == GCD(Abs(n), Abs(d))
             s == Sign(d)
         IN  <<(s * n) \div g, (s * d) \div g>>

R(n) == <<n, 1>>

Zero == R(0)

NaN == <<0, 0>>

Inf == <<1, 0>>

IsNaN(x) == x = NaN

IsFinite(x) == x[2] # 0

IsZero(x) == x = Zero

Neg(x) == <<-x[1], x[2]>>

Mul(x, y) == Normalize(x[1] * y[1], x[2] * y[2])

\* 1/x, with 1/0 = +inf and 1/inf = 0.
Recip(x) ==
    IF x[1] > 0 THEN <<x[2], x[1]>>
    ELSE IF x[1] < 0 THEN <<-x[2], -x[1]>>
    ELSE IF x[2] = 0 THEN NaN ELSE Inf

Div(x, y) == Mul(x, Recip(y))

Add(x, y) ==
    IF IsNaN(x) \/ IsNaN(y) THEN NaN
    ELSE IF x[2] = 0 /\ y[2] = 0 THEN (IF x = y THEN x ELSE NaN)
    ELSE IF x[2] = 0 THEN x
    ELSE IF y[2] = 0 THEN y
    ELSE LET g == GCD(x[2], y[2])
         IN  Normalize(x[1] * (y[2] \div g) + y[1] * (x[2] \div g),
                       x[2] * (y[2] \div g))

Sub(x, y) == Add(x, Neg(y))

RECURSIVE Pow(_, _)
Pow(x, n) == IF n = 0 THEN R(1) ELSE Mul(x, Pow(x, n - 1))

IsPerfectSquare(n) == n >= 0 /\ \E r \in 0..n : r * r = n

ISqrt(n) == CHOOSE r \in 0..n : r * r = n

\* A finite non-negative value whose square root is rational.
HasExactSqrt(x) ==
    IsFinite(x) /\ IsPerfectSquare(x[1]) /\ IsPerfectSquare(x[2])

Sqrt(x) == <<ISqrt(x[1]), ISqrt(x[2])>>

\* ------------------------------------------------------- array helpers
\* A numpy array: the finite sequence of its entries, evaluated once.
Array(f) == f \o <<>>

\* a - b of two vectors of the same length.
VecSub(a, b) == Array([i \in 1..Len(a) |-> Sub(a[i], b[i])])

\* -a of a vector.
VecNeg(a) == Array([i \in 1..Len(a) |-> Neg(a[i])])

\* s * a of a scalar and a vector.
VecScale(s, a) == Array([i \in 1..Len(a) |-> Mul(s, a[i])])

\* a + b of two vectors of the same length.
VecAdd(a, b) == Array([i \in 1..Len(a) |-> Add(a[i], b[i])])

RECURSIVE SumTo(_, _)
SumTo(xs, n) == IF n = 0 THEN Zero ELSE Add(SumTo(xs, n - 1), xs[n])

\* The sum of the entries of a row of numbers.
SumOf(xs) == SumTo(xs, Len(xs))

\* numpy.linalg.norm of one vector.
NormOf(a) == Sqrt(SumOf(Array([i \in 1..Len(a) |-> Mul(a[i], a[i])])))

ZeroVec == Array([i \in 1..Dim |-> Zero])

\* ---------------------------------------------------- distance kernel
\* distances.two_arrays: the distance vectors q_i - q_js[k] and their norms.
two_arrays(q_i, q_js) ==
    LET q_jsi == Array([k \in 1..Len(q_js) |-> VecSub(q_i, q_js[k])])
    IN  [q_jsi |-> q_jsi,
         d_ijs |-> Array([k \in 1..Len(q_js) |-> NormOf(q_jsi[k])])]

\* ---------------------------------------------------- per-term kernels
\* terms_multi_vectorized_lazy.coulomb: e = k_e * c_ij / d,
\* f = e / d^2 * q_jsi, for every pair of the batch.
lazy_coulomb(q_jsi, d_ijs, c_ijs, k_e) ==
    LET e_ijs == Array([k \in 1..Len(d_ijs) |->
                          Div(Mul(k_e, c_ijs[k]), d_ijs[k])])
    IN  [f_ijs |-> Array([k \in 1..Len(d_ijs) |->
                      VecScale(Div(e_ijs[k], Pow(d_ijs[k], 2)), q_jsi[k])]),
         e_ijs |-> e_ijs]

\* terms_multi_vectorized_lazy.lennard_jones: e = A / d^12 - B / d^6,
\* f = (12 A / d^14 - 6 B / d^8) * q_jsi.
lazy_lennard_jones(q_jsi, d_ijs, a_ijs, b_ijs) ==
    [f_ijs |-> Array([k \in 1..Len(d_ijs) |->
                  VecScale(Sub(Div(Mul(R(12), a_ijs[k]), Pow(d_ijs[k], 14)),
                               Div(Mul(R(6), b_ijs[k]), Pow(d_ijs[k], 8))),
                           q_jsi[k])]),
     e_ijs |-> Array([k \in 1..Len(d_ijs) |->
                  Sub(Div(a_ijs[k], Pow(d_ijs[k], 12)),
                      Div(b_ijs[k], Pow(d_ijs[k], 6)))])]

\* terms_multi_vectorized_lazy.bond_vibration_harmonic:
\* e = k_b * (d - d0)^2, f = -2 * k_b * (d - d0) / d * q_jsi.
lazy_bond_vibration_harmonic(q_jsi, d_ijs, d0_ijs, k_b_ijs) ==
    [f_ijs |-> Array([k \in 1..Len(d_ijs) |->
                  VecScale(Div(Mul(Mul(R(-2), k_b_ijs[k]),
                                   Sub(d_ijs[k], d0_ijs[k])),
                               d_ijs[k]),
                           q_jsi[k])]),
     e_ijs |-> Array([k \in 1..Len(d_ijs) |->
                  Mul(k_b_ijs[k], Pow(Sub(d_ijs[k], d0_ijs[k]), 2))])]

\* ------------------------------------------------ batch dispatch layer
\* The first row taken for the sum of the rows.
SumAxis0_first_row(f_ijs) == f_ijs[1]

\* f_ijs.sum(axis=0): the column sums of an n x m batch.
SumAxis0(f_ijs) ==
    Array([i \in 1..Len(f_ijs[1]) |->
             SumOf(Array([k \in 1..Len(f_ijs) |-> f_ijs[k][i]]))])

\* A batch returned as it is, the negation forgotten.
NegBatch_forgotten(f_ijs) == f_ijs

\* -f_ijs: every entry of the batch negated, the rows in place.
NegBatch(f_ijs) == Array([k \in 1..Len(f_ijs) |-> VecNeg(f_ijs[k])])

\* The value of a function whose body is `pass`.
None == [kind |-> "None"]

\* coulomb with the two force outputs given the opposite signs.
coulomb_signs_exchanged(q_i, q_js, c_i, c_js, k_e) ==
    LET d == two_arrays(q_i, q_js)
        r == lazy_coulomb(d.q_jsi, d.d_ijs,
                          Array([k \in 1..Len(c_js) |-> Mul(c_i, c_js[k])]),
                          k_e)
    IN  [kind |-> "tuple",
         f_i_total |-> SumAxis0(NegBatch(r.f_ijs)),
         f_jsi |-> r.f_ijs,
         e_ijs |-> r.e_ijs]

\* coulomb with the charge of the target left out of the charge products.
coulomb_without_c_i(q_i, q_js, c_i, c_js, k_e) ==
    LET d == two_arrays(q_i, q_js)
        r == lazy_coulomb(d.q_jsi, d.d_ijs, c_js, k_e)
    IN  [kind |-> "tuple",
         f_i_total |-> SumAxis0(r.f_ijs),
         f_jsi |-> NegBatch(r.f_ijs),
         e_ijs |-> r.e_ijs]

coulomb(q_i, q_js, c_i, c_js, k_e) ==
    LET d == two_arrays(q_i, q_js)
        r == lazy_coulomb(d.q_jsi, d.d_ijs,
                          Array([k \in 1..Len(c_js) |-> Mul(c_i, c_js[k])]),
                          k_e)
    IN  [kind |-> "tuple",
         f_i_total |-> SumAxis0(r.f_ijs),
         f_jsi |-> NegBatch(r.f_ijs),
         e_ijs |-> r.e_ijs]

\* lennard_jones with the total force negated like the per-partner forces.
lennard_jones_total_negated(q_i, q_js, a_ijs, b_ijs) ==
    LET d == two_arrays(q_i, q_js)
        r == lazy_lennard_jones(d.q_jsi, d.d_ijs, a_ijs, b_ijs)
    IN  [kind |-> "tuple",
         f_i_total |-> SumAxis0(NegBatch(r.f_ijs)),
         f_jsi |-> NegBatch(r.f_ijs),
         e_ijs |-> r.e_ijs]

\* A value with inf and NaN replaced by 0, as numpy.nan_to_num would.
Guarded(x) == IF IsFinite(x) THEN x ELSE Zero

\* lennard_jones with its outputs guarded against undefined values.
lennard_jones_guarded(q_i, q_js, a_ijs, b_ijs) ==
    LET d == two_arrays(q_i, q_js)
        r == lazy_lennard_jones(d.q_jsi, d.d_ijs, a_ijs, b_ijs)
        f_ijs == Array([k \in 1..Len(q_js) |->
                    Array([i \in 1..Len(q_i) |-> Guarded(r.f_ijs[k][i])])])
    IN  [kind |-> "tuple",
         f_i_total |-> SumAxis0(f_ijs),
         f_jsi |-> NegBatch(f_ijs),
         e_ijs |-> Array([k \in 1..Len(q_js) |-> Guarded(r.e_ijs[k])])]

\* lennard_jones with the two coefficient batches passed in the wrong order.
lennard_jones_b_for_a(q_i, q_js, a_ijs, b_ijs) ==
    LET d == two_arrays(q_i, q_js)
        r == lazy_lennard_jones(d.q_jsi, d.d_ijs, b_ijs, a_ijs)
    IN  [kind |-> "tuple",
         f_i_total |-> SumAxis0(r.f_ijs),
         f_jsi |-> NegBatch(r.f_ijs),
         e_ijs |-> r.e_ijs]

lennard_jones(q_i, q_js, a_ijs, b_ijs) ==
    LET d == two_arrays(q_i, q_js)
        r == lazy_lennard_jones(d.q_jsi, d.d_ijs, a_ijs, b_ijs)
    IN  [kind |-> "tuple",
         f_i_total |-> SumAxis0(r.f_ijs),
         f_jsi |-> NegBatch(r.f_ijs),
         e_ijs |-> r.e_ijs]

\* bond_vibration_harmonic with the two force outputs given the opposite
\* signs.
bond_vibration_harmonic_signs_exchanged(q_i, q_js, d0_ijs, k_b_ijs) ==
    LET d == two_arrays(q_i, q_js)
        r == lazy_bond_vibration_harmonic(d.q_jsi, d.d_ijs, d0_ijs, k_b_ijs)
    IN  [kind |-> "tuple",
         f_i_total |-> SumAxis0(NegBatch(r.f_ijs)),
         f_jsi |-> r.f_ijs,
         e_ijs |-> r.e_ijs]

\* bond_vibration_harmonic returning the energies negated.
bond_vibration_harmonic_energy_negated(q_i, q_js, d0_ijs, k_b_ijs) ==
    LET d == two_arrays(q_i, q_js)
        r == lazy_bond_vibration_harmonic(d.q_jsi, d.d_ijs, d0_ijs, k_b_ijs)
    IN  [kind |-> "tuple",
         f_i_total |-> SumAxis0(r.f_ijs),
         f_jsi |-> NegBatch(r.f_ijs),
         e_ijs |-> Array([k \in 1..Len(q_js) |-> Neg(r.e_ijs[k])])]

\* bond_vibration_harmonic with the two parameter batches passed in the
\* wrong order.
bond_vibration_harmonic_k_b_for_d0(q_i, q_js, d0_ijs, k_b_ijs) ==
    LET d == two_arrays(q_i, q_js)
        r == lazy_bond_vibration_harmonic(d.q_jsi, d.d_ijs, k_b_ijs, d0_ijs)
    IN  [kind |-> "tuple",
         f_i_total |-> SumAxis0(r.f_ijs),
         f_jsi |-> NegBatch(r.f_ijs),
         e_ijs |-> r.e_ijs]

bond_vibration_harmonic(q_i, q_js, d0_ijs, k_b_ijs) ==
    LET d == two_arrays(q_i, q_js)
        r == lazy_bond_vibration_harmonic(d.q_jsi, d.d_ijs, d0_ijs, k_b_ijs)
    IN  [kind |-> "tuple",
         f_i_total |-> SumAxis0(r.f_ijs),
         f_jsi |-> NegBatch(r.f_ijs),
         e_ijs |-> r.e_ijs]

angle_vibration_harmonic(q_is, q_j, q_ks, angle0_isjks, k_a_isjks) == None

dihedral == None

improper_dihedral == None

\* ------------------------------------------- single-pair evaluation
\* terms_single_array.coulomb: the force on 'i' due to 'j' and the potential
\* of the pair, evaluated for one pair directly from the formula.
single_coulomb(q_i, q_j, c_i, c_j, k_e) ==
    LET q_ji == VecSub(q_i, q_j)
        d_ij == NormOf(q_ji)
        e_ij == Div(Mul(Mul(k_e, c_i), c_j), d_ij)
    IN  [f_i |-> VecScale(Div(e_ij, Mul(d_ij, d_ij)), q_ji), e_ij |-> e_ij]

\* terms_single_array.lennard_jones
single_lennard_jones(q_i, q_j, a_ij, b_ij) ==
    LET q_ji == VecSub(q_i, q_j)
        d_ij == NormOf(q_ji)
    IN  [f_i |-> VecScale(Sub(Div(Mul(R(12), a_ij), Pow(d_ij, 14)),
                              Div(Mul(R(6), b_ij), Pow(d_ij, 8))), q_ji),
         e_ij |-> Sub(Div(a_ij, Pow(d_ij, 12)), Div(b_ij, Pow(d_ij, 6)))]

\* terms_single_array.bond_vibration_harmonic
single_bond_vibration_harmonic(q_i, q_j, d0, k_b) ==
    LET q_ji == VecSub(q_i, q_j)
        d_ij == NormOf(q_ji)
        delta == Sub(d_ij, d0)
    IN  [f_i |-> VecScale(Div(Mul(Mul(R(-2), k_b), delta), d_ij), q_ji),
         e_ij |-> Mul(Mul(k_b, delta), delta)]

\* ---------------------------------------- pair-by-pair reference path
\* The particles q[0], q[1:] of the tests as one array (indices from 1).
Particles(q_i, q_js) == <<q_i>> \o q_js

\* pairs_idx of the tests: the target paired with every other particle.
PairsIdx(n) == Array([k \in 1..n |-> <<1, k + 1>>])

\* The loop of terms_multi_iter over the first idx pairs: the force of each
\* pair is added to its first particle and subtracted from its second.
RECURSIVE iter_forces(_, _, _, _)
iter_forces(f, pairs_idx, pair, idx) ==
    IF idx = 0 THEN f
    ELSE LET g == iter_forces(f, pairs_idx, pair, idx - 1)
             i == pairs_idx[idx][1]
             j == pairs_idx[idx][2]
         IN  [g EXCEPT ![i] = VecAdd(@, pair[idx].f_i),
                       ![j] = VecSub(@, pair[idx].f_i)]

\* The result (f, e) of a terms_multi_iter function from its pair results.
iter_result(q, pairs_idx, pair) ==
    [f |-> iter_forces(Array([p \in 1..Len(q) |-> ZeroVec]), pairs_idx, pair,
                       Len(pairs_idx)),
     e |-> Array([idx \in 1..Len(pairs_idx) |-> pair[idx].e_ij])]

\* terms_multi_iter.coulomb(q, pairs_idx, c, k_e)
iter_coulomb(q, pairs_idx, c, k_e) ==
    iter_result(q, pairs_idx, Array([idx \in 1..Len(pairs_idx) |->
        single_coulomb(q[pairs_idx[idx][1]], q[pairs_idx[idx][2]],
                       c[pairs_idx[idx][1]], c[pairs_idx[idx][2]], k_e)]))

\* terms_multi_iter.lennard_jones(q, pairs_idx, a, b)
iter_lennard_jones(q, pairs_idx, a, b) ==
    iter_result(q, pairs_idx, Array([idx \in 1..Len(pairs_idx) |->
        single_lennard_jones(q[pairs_idx[idx][1]], q[pairs_idx[idx][2]],
                             a[idx], b[idx])]))

\* terms_multi_iter.bond_vibration_harmonic(q, pairs_idx, d0, k_b)
iter_bond_vibration_harmonic(q, pairs_idx, d0, k_b) ==
    iter_result(q, pairs_idx, Array([idx \in 1..Len(pairs_idx) |->
        single_bond_vibration_harmonic(q[pairs_idx[idx][1]],
                                       q[pairs_idx[idx][2]],
                                       d0[idx], k_b[idx])]))

\* ------------------------------------------------------ input domains
\* Positions the particles are placed at: the origin and points on two
\* coordinate axes, so that coincident particles, distances 1 and 2 and
\* forces along different axes all occur.
Points == {<<0, 0, 0>>, <<1, 0, 0>>, <<0, -2, 0>>}

\* The ways to place n partners at pairwise different positions.
Placements(n) ==
    {ps \in [1..n -> Points] : \A j, k \in 1..n : j # k => ps[j] # ps[k]}

\* The partners of a caller that keeps its first call: one partner, and two
\* partners at different distances and in different directions.
KeptPlacements ==
    {<< <<1, 0, 0>> >>, << <<0, -2, 0>>, <<1, 0, 0>> >>}

\* A position as a coordinates vector of shape (m, ).
AsVector(p) == [i \in 1..Dim |-> R(p[i])]

\* Batches of shape (n, ) over the values S, 1 <= n <= MaxN.
Batch(S, n) == [1..n -> S]

ChargeVals == {R(1), R(-2)}

KeVals == {R(1), R(2)}

LJVals == {R(1), R(-2)}

D0Vals == {R(1), R(2)}

KbVals == {R(1), R(-2)}

AngleVals == {R(1)}

\* Every distance between 'i' and a particle of 'js' has an exact root.
ExactDistances(qi, qjs) ==
    \A k \in 1..Len(qjs) :
        HasExactSqrt(SumOf([i \in 1..Dim |->
            Mul(Sub(qi[i], qjs[k][i]), Sub(qi[i], qjs[k][i]))]))

\* ------------------------------------------------------------- state
VARIABLES
    q_i,    \* coordinates of the target particle, shape (m, )
    q_js,   \* coordinates of the interacting particles, shape (n, m)
    term,   \* the function of the module that was called last
    given,  \* the parameter arrays of that call, as the caller passed them
    args,   \* the parameter arrays of that call, as they are after it
    ret,    \* what the call returned
    pc,     \* "idle": no call yet; "returned": the call completed normally;
            \* "raised": the call ended in an exception
    kept    \* the first call of the caller, kept to compare later calls with

vars == <<q_i, q_js, term, given, args, ret, pc, kept>>

NoArgs == [none |-> TRUE]

NoRet == [kind |-> "nothing"]

\* The caller keeps no call to compare with.
NotKeeping == [kind |-> "not keeping"]

\* The caller keeps its first call, and has made none yet.
NothingKept == [kind |-> "nothing kept"]

\* The coordinates and the state of a caller that has made no call yet.
Fresh ==
    /\ ExactDistances(q_i, q_js)
    /\ term = "none"
    /\ given = NoArgs
    /\ args = NoArgs
    /\ ret = NoRet
    /\ pc = "idle"

\* The target at any position and up to MaxN partners at pairwise different
\* positions, one of which may be the position of the target.
Init ==
    /\ q_i \in {AsVector(p) : p \in Points}
    /\ \E n \in 1..MaxN :
         q_js \in {[k \in 1..n |-> AsVector(ps[k])] : ps \in Placements(n)}
    /\ kept = NotKeeping
    /\ Fresh

\* A caller that keeps its first call: the target at the origin and its
\* partners away from it.
InitKeeping ==
    /\ q_i = AsVector(<<0, 0, 0>>)
    /\ q_js \in {[k \in 1..Len(ps) |-> AsVector(ps[k])] : ps \in KeptPlacements}
    /\ kept = NothingKept
    /\ Fresh

\* What the caller keeps after the function t, called with the parameter
\* arrays a, has returned r: its first call, with the coordinates and the
\* parameters as they were passed, and whether a different call followed it.
Keep(t, a, r) ==
    IF kept = NothingKept
    THEN [kind |-> "call", term |-> t, q_i |-> q_i, q_js |-> q_js,
          args |-> a, ret |-> r, between |-> FALSE]
    ELSE IF kept = NotKeeping \/ (t = kept.term /\ a = kept.args)
         THEN kept
         ELSE [kept EXCEPT !.between = TRUE]

\* A coulomb that forms the charge products in place, in the caller's c_js.
call_coulomb_in_place ==
    \E c_i \in ChargeVals, c_js \in Batch(ChargeVals, Len(q_js)), k_e \in KeVals :
        LET a == [c_i |-> c_i, c_js |-> c_js, k_e |-> k_e]
            r == coulomb(q_i, q_js, c_i, c_js, k_e)
        IN  /\ term' = "coulomb"
            /\ given' = a
            /\ args' = [a EXCEPT !.c_js =
                            Array([k \in 1..Len(c_js) |-> Mul(c_i, c_js[k])])]
            /\ ret' = r
            /\ pc' = "returned"
            /\ kept' = Keep("coulomb", a, r)
            /\ UNCHANGED <<q_i, q_js>>

\* f_i_total, f_jsi, e_ijs = coulomb(q_i, q_js, c_i, c_js, k_e)
call_coulomb ==
    \E c_i \in ChargeVals, c_js \in Batch(ChargeVals, Len(q_js)), k_e \in KeVals :
        LET a == [c_i |-> c_i, c_js |-> c_js, k_e |-> k_e]
            r == coulomb(q_i, q_js, c_i, c_js, k_e)
        IN  /\ term' = "coulomb"
            /\ given' = a
            /\ args' = a
            /\ ret' = r
            /\ pc' = "returned"
            /\ kept' = Keep("coulomb", a, r)
            /\ UNCHANGED <<q_i, q_js>>

\* f_i_total, f_jsi, e_ijs = lennard_jones(q_i, q_js, a_ijs, b_ijs)
call_lennard_jones ==
    \E a_ijs \in Batch(LJVals, Len(q_js)), b_ijs \in Batch(LJVals, Len(q_js)) :
        LET a == [a_ijs |-> a_ijs, b_ijs |-> b_ijs]
            r == lennard_jones(q_i, q_js, a_ijs, b_ijs)
        IN  /\ term' = "lennard_jones"
            /\ given' = a
            /\ args' = a
            /\ ret' = r
            /\ pc' = "returned"
            /\ kept' = Keep("lennard_jones", a, r)
            /\ UNCHANGED <<q_i, q_js>>

\* f_i_total, f_jsi, e_ijs = bond_vibration_harmonic(q_i, q_js, d0_ijs, k_b_ijs)
call_bond_vibration_harmonic ==
    \E d0_ijs \in Batch(D0Vals, Len(q_js)), k_b_ijs \in Batch(KbVals, Len(q_js)) :
        LET a == [d0_ijs |-> d0_ijs, k_b_ijs |-> k_b_ijs]
            r == bond_vibration_harmonic(q_i, q_js, d0_ijs, k_b_ijs)
        IN  /\ term' = "bond_vibration_harmonic"
            /\ given' = a
            /\ args' = a
            /\ ret' = r
            /\ pc' = "returned"
            /\ kept' = Keep("bond_vibration_harmonic", a, r)
            /\ UNCHANGED <<q_i, q_js>>

\* angle_vibration_harmonic(q_is, q_j, q_ks, angle0_isjks, k_a_isjks), with
\* the batch as both end particles and the target as the middle one.
call_angle_vibration_harmonic ==
    \E angle0_isjks \in Batch(AngleVals, Len(q_js)),
       k_a_isjks \in Batch(KbVals, Len(q_js)) :
        LET a == [angle0_isjks |-> angle0_isjks, k_a_isjks |-> k_a_isjks]
            r == angle_vibration_harmonic(q_js, q_i, q_js,
                                          angle0_isjks, k_a_isjks)
        IN  /\ term' = "angle_vibration_harmonic"
            /\ given' = a
            /\ args' = a
            /\ ret' = r
            /\ pc' = "returned"
            /\ kept' = Keep("angle_vibration_harmonic", a, r)
            /\ UNCHANGED <<q_i, q_js>>

\* dihedral()
call_dihedral ==
    /\ term' = "dihedral"
    /\ given' = NoArgs
    /\ args' = NoArgs
    /\ ret' = dihedral
    /\ pc' = "returned"
    /\ kept' = Keep("dihedral", NoArgs, dihedral)
    /\ UNCHANGED <<q_i, q_js>>

\* improper_dihedral()
call_improper_dihedral ==
    /\ term' = "improper_dihedral"
    /\ given' = NoArgs
    /\ args' = NoArgs
    /\ ret' = improper_dihedral
    /\ pc' = "returned"
    /\ kept' = Keep("improper_dihedral", NoArgs, improper_dihedral)
    /\ UNCHANGED <<q_i, q_js>>

\* Any function of the module may be called after any other.
Next ==
    \/ call_coulomb
    \/ call_lennard_jones
    \/ call_bond_vibration_harmonic
    \/ call_angle_vibration_harmonic
    \/ call_dihedral
    \/ call_improper_dihedral

Spec == Init /\ [][Next]_vars

SpecKeeping == InitKeeping /\ [][Next]_vars

\* ------------------------------------------------- terms for the claims
Implemented == {"coulomb", "lennard_jones", "bond_vibration_harmonic"}

Unimplemented == {"angle_vibration_harmonic", "dihedral", "improper_dihedral"}

\* An implemented term has returned its (f_i_total, f_jsi, e_ijs).
Done == pc = "returned" /\ term \in Implemented

\* The distance between the target and partner k.
Dist(k) == NormOf(VecSub(q_i, q_js[k]))

Apart(k) == ~IsZero(Dist(k))

AllApart == \A k \in 1..Len(q_js) : Apart(k)

\* The force on the target due to partner k alone and the energy of that
\* pair, from the term's kernel applied to the one pair.
KernelPair(k) ==
    LET d == two_arrays(q_i, <<q_js[k]>>)
        r == CASE term = "coulomb" ->
                    lazy_coulomb(d.q_jsi, d.d_ijs,
                                 <<Mul(args.c_i, args.c_js[k])>>, args.k_e)
               [] term = "lennard_jones" ->
                    lazy_lennard_jones(d.q_jsi, d.d_ijs,
                                       <<args.a_ijs[k]>>, <<args.b_ijs[k]>>)
               [] term = "bond_vibration_harmonic" ->
                    lazy_bond_vibration_harmonic(d.q_jsi, d.d_ijs,
                                                 <<args.d0_ijs[k]>>,
                                                 <<args.k_b_ijs[k]>>)
    IN  [f |-> r.f_ijs[1], e |-> r.e_ijs[1]]

\* The same pair evaluated directly from the formula of the term.
SinglePair(k) ==
    CASE term = "coulomb" ->
            single_coulomb(q_i, q_js[k], args.c_i, args.c_js[k], args.k_e)
      [] term = "lennard_jones" ->
            single_lennard_jones(q_i, q_js[k], args.a_ijs[k], args.b_ijs[k])
      [] term = "bond_vibration_harmonic" ->
            single_bond_vibration_harmonic(q_i, q_js[k], args.d0_ijs[k],
                                           args.k_b_ijs[k])

IsFiniteVec(v) == \A i \in 1..Len(v) : IsFinite(v[i])

\* The component-wise sum of the pairwise forces of the partners in ks.
RECURSIVE SumPairForces(_, _)
SumPairForces(n, skip) ==
    IF n = 0 THEN ZeroVec
    ELSE IF n = skip THEN SumPairForces(n - 1, skip)
    ELSE VecAdd(SumPairForces(n - 1, skip), KernelPair(n).f)

\* ---------------------------------------------------------------- C1
\* C1 (Newton's third law): after coulomb, lennard_jones or
\* bond_vibration_harmonic has returned, the row k of the second return
\* value is the negative of the force on the target due to partner k alone,
\* as the term's kernel gives it for that pair, for every partner k that
\* does not coincide with the target; both are finite.
C1_NewtonThirdLaw ==
    Done =>
        \A k \in 1..Len(q_js) :
            Apart(k) =>
                /\ IsFiniteVec(ret.f_jsi[k])
                /\ ret.f_jsi[k] = VecNeg(KernelPair(k).f)

\* A call with two partners that feel different, non-zero forces.
C1_Witness ==
    /\ Done
    /\ Len(q_js) = 2
    /\ AllApart
    /\ ret.f_jsi[1] # ZeroVec
    /\ ret.f_jsi[2] # ZeroVec
    /\ ret.f_jsi[1] # ret.f_jsi[2]
    /\ ret.f_jsi[1] = VecNeg(KernelPair(1).f)

\* ---------------------------------------------------------------- C2
\* C2 (superposition): after an implemented term has returned for a batch
\* without coincident particles, the first return value is a vector of the
\* length of q_i that is the component-wise sum, over all partners k, of the
\* force on the target due to partner k alone.
C2_Superposition ==
    (Done /\ AllApart) =>
        /\ Len(ret.f_i_total) = Len(q_i)
        /\ ret.f_i_total = SumPairForces(Len(q_js), 0)

\* Two partners whose forces on the target differ from each other and from
\* their sum.
C2_Witness ==
    /\ Done
    /\ Len(q_js) = 2
    /\ AllApart
    /\ KernelPair(1).f # ZeroVec
    /\ KernelPair(2).f # ZeroVec
    /\ KernelPair(1).f # KernelPair(2).f
    /\ ret.f_i_total = VecAdd(KernelPair(1).f, KernelPair(2).f)

\* ---------------------------------------------------------------- C3
\* C3 (unimplemented terms are a hard error): a call of
\* angle_vibration_harmonic, dihedral or improper_dihedral never completes
\* normally; it ends in an exception.
C3_UnimplementedIsHardError ==
    term \in Unimplemented => pc = "raised"

\* ---------------------------------------------------------------- C4
\* The call of the term for the pair (k, i): partner k as the target, the
\* target as the only partner, with the parameters of the pair (for coulomb
\* the two charges swapped along with the particles).
Swapped(k) ==
    CASE term = "coulomb" ->
            coulomb(q_js[k], <<q_i>>, args.c_js[k], <<args.c_i>>, args.k_e)
      [] term = "lennard_jones" ->
            lennard_jones(q_js[k], <<q_i>>,
                          <<args.a_ijs[k]>>, <<args.b_ijs[k]>>)
      [] term = "bond_vibration_harmonic" ->
            bond_vibration_harmonic(q_js[k], <<q_i>>,
                                    <<args.d0_ijs[k]>>, <<args.k_b_ijs[k]>>)

\* C4 (symmetry under swap): for every non-coincident partner k of a
\* returned call, the call for the pair (k, i) returns the same potential
\* energy as the pair (i, k) has, and a total force equal to f_jsi[k] of the
\* original call; its own per-partner force is the negative of that; and
\* when the original batch has one partner, the swapped total force is
\* exactly the negative of the original total force.
C4_SymmetryUnderSwap ==
    Done =>
        \A k \in 1..Len(q_js) :
            Apart(k) =>
                LET swapped == Swapped(k)
                IN  /\ swapped.e_ijs[1] = ret.e_ijs[k]
                    /\ IsFinite(ret.e_ijs[k])
                    /\ swapped.f_i_total = ret.f_jsi[k]
                    /\ swapped.f_jsi[1] = VecNeg(ret.f_jsi[k])
                    /\ (Len(q_js) = 1 =>
                            swapped.f_i_total = VecNeg(ret.f_i_total))

\* A one-partner coulomb call with unequal charges and a non-zero force,
\* whose swapped call returns the opposite force.
C4_Witness ==
    /\ Done
    /\ term = "coulomb"
    /\ Len(q_js) = 1
    /\ Apart(1)
    /\ args.c_i # args.c_js[1]
    /\ ret.f_i_total # ZeroVec
    /\ Swapped(1).f_i_total = VecNeg(ret.f_i_total)
    /\ Swapped(1).e_ijs[1] = ret.e_ijs[1]

\* ---------------------------------------------------------------- C5
\* The pair-by-pair reference evaluation of the tests for the call made:
\* particle 1 is the target, particles 2..n+1 the partners.
Reference ==
    LET q == Particles(q_i, q_js)
        pairs_idx == PairsIdx(Len(q_js))
    IN  CASE term = "coulomb" ->
                iter_coulomb(q, pairs_idx, <<args.c_i>> \o args.c_js, args.k_e)
          [] term = "lennard_jones" ->
                iter_lennard_jones(q, pairs_idx, args.a_ijs, args.b_ijs)
          [] term = "bond_vibration_harmonic" ->
                iter_bond_vibration_harmonic(q, pairs_idx,
                                             args.d0_ijs, args.k_b_ijs)

\* C5 (equivalence with the non-batched path): for every returned call
\* without coincident particles, f_i_total is the reference's accumulated
\* force on particle 1, f_jsi[k] the reference's force on particle k + 1 and
\* e_ijs[k] the reference's energy of pair k; with one partner the result is
\* the direct single-pair evaluation of the formula.
C5_EqualsReferencePath ==
    (Done /\ AllApart) =>
        LET reference == Reference
        IN  /\ ret.f_i_total = reference.f[1]
            /\ \A k \in 1..Len(q_js) :
                  /\ ret.f_jsi[k] = reference.f[k + 1]
                  /\ ret.e_ijs[k] = reference.e[k]
            /\ (Len(q_js) = 1 =>
                  /\ ret.f_i_total = SinglePair(1).f_i
                  /\ ret.e_ijs[1] = SinglePair(1).e_ij)

\* A lennard_jones call with two partners at different distances and with
\* different coefficients, equal to the reference.
C5_Witness ==
    /\ Done
    /\ term = "lennard_jones"
    /\ Len(q_js) = 2
    /\ AllApart
    /\ Dist(1) # Dist(2)
    /\ args.a_ijs[1] # args.b_ijs[1]
    /\ ret.f_i_total # ZeroVec
    /\ ret.f_i_total = Reference.f[1]
    /\ ret.e_ijs = Reference.e

\* ---------------------------------------------------------------- C6
\* The scenario: target at the origin with charge +1, one partner at
\* (1, 0, 0) with charge +1, k_e = 1, and coulomb has returned.
C6_Scenario ==
    /\ pc = "returned"
    /\ term = "coulomb"
    /\ q_i = <<R(0), R(0), R(0)>>
    /\ q_js = <<(<<R(1), R(0), R(0)>>)>>
    /\ args = [c_i |-> R(1), c_js |-> <<R(1)>>, k_e |-> R(1)]

\* C6 (concrete coulomb scenario): in the scenario the pair's potential
\* energy is 1, the total force on the target is (-1, 0, 0) and the force on
\* the partner is (1, 0, 0).
C6_CoulombScenario ==
    C6_Scenario =>
        /\ ret.e_ijs = <<R(1)>>
        /\ ret.f_i_total = <<R(-1), R(0), R(0)>>
        /\ ret.f_jsi = <<(<<R(1), R(0), R(0)>>)>>

\* The scenario is reached.
C6_Witness == C6_Scenario /\ ret.kind = "tuple"

\* ---------------------------------------------------------------- C7
\* The per-pair energies of the whole batch as the term's kernel gives them.
KernelEnergies ==
    LET d == two_arrays(q_i, q_js)
    IN  CASE term = "coulomb" ->
                lazy_coulomb(d.q_jsi, d.d_ijs,
                             Array([k \in 1..Len(q_js) |->
                                      Mul(args.c_i, args.c_js[k])]),
                             args.k_e).e_ijs
          [] term = "lennard_jones" ->
                lazy_lennard_jones(d.q_jsi, d.d_ijs,
                                   args.a_ijs, args.b_ijs).e_ijs
          [] term = "bond_vibration_harmonic" ->
                lazy_bond_vibration_harmonic(d.q_jsi, d.d_ijs, args.d0_ijs,
                                             args.k_b_ijs).e_ijs

\* C7 (index alignment of the outputs): after an implemented term has
\* returned, f_i_total has the length of q_i, f_jsi has one row per partner,
\* each of the length of that partner's coordinates, e_ijs has one entry per
\* partner and is the kernel's energy batch unchanged; and row and entry k
\* are those of the partner at position k with the parameters at position k.
C7_IndexAlignment ==
    Done =>
        /\ DOMAIN ret.f_i_total = DOMAIN q_i
        /\ DOMAIN ret.f_jsi = DOMAIN q_js
        /\ DOMAIN ret.e_ijs = DOMAIN q_js
        /\ ret.e_ijs = KernelEnergies
        /\ \A k \in 1..Len(q_js) :
              /\ DOMAIN ret.f_jsi[k] = DOMAIN q_js[k]
              /\ Apart(k) =>
                    LET pair == SinglePair(k)
                    IN  /\ ret.e_ijs[k] = pair.e_ij
                        /\ ret.f_jsi[k] = VecNeg(pair.f_i)

\* A bond call with two partners whose energies and forces differ, so that
\* a reordering would show.
C7_Witness ==
    /\ Done
    /\ term = "bond_vibration_harmonic"
    /\ Len(q_js) = 2
    /\ AllApart
    /\ ret.e_ijs[1] # ret.e_ijs[2]
    /\ ret.e_ijs[1] # Zero
    /\ ret.f_jsi[1] # ret.f_jsi[2]
    /\ ret.e_ijs[2] = SinglePair(2).e_ij

\* ---------------------------------------------------------------- C8
IsUndefinedVec(v) == \A i \in 1..Len(v) : ~IsFinite(v[i])

\* C8 (coincident particles are not guarded): a call of coulomb or
\* lennard_jones with a partner k at the position of the target returns
\* normally; the energy of pair k and every component of the force of pair
\* k are infinite or NaN, and so is every component of f_i_total; the
\* energies and per-partner forces of the partners that do not coincide
\* with the target are the finite values of their pairs.
C8_CoincidentUnguarded ==
    /\ pc # "raised"
    /\ (pc = "returned" /\ term \in {"coulomb", "lennard_jones"}) =>
          \A k \in 1..Len(q_js) :
              ~Apart(k) =>
                  /\ ~IsFinite(ret.e_ijs[k])
                  /\ IsUndefinedVec(ret.f_jsi[k])
                  /\ IsUndefinedVec(ret.f_i_total)
                  /\ \A j \in 1..Len(q_js) :
                        Apart(j) =>
                            LET pair == SinglePair(j)
                            IN  /\ IsFinite(ret.e_ijs[j])
                                /\ IsFiniteVec(ret.f_jsi[j])
                                /\ ret.e_ijs[j] = pair.e_ij
                                /\ ret.f_jsi[j] = VecNeg(pair.f_i)

\* A lennard_jones call whose first partner coincides with the target and
\* whose second partner does not and feels a non-zero force.
C8_Witness ==
    /\ pc = "returned"
    /\ term = "lennard_jones"
    /\ Len(q_js) = 2
    /\ ~Apart(1)
    /\ Apart(2)
    /\ ~IsFinite(ret.e_ijs[1])
    /\ IsNaN(ret.f_i_total[1])
    /\ ret.f_jsi[2] # ZeroVec

\* ---------------------------------------------------------------- C9
\* The value the function t returns for the arrays qi, qjs and a.
Apply(t, qi, qjs, a) ==
    CASE t = "coulomb" -> coulomb(qi, qjs, a.c_i, a.c_js, a.k_e)
      [] t = "lennard_jones" -> lennard_jones(qi, qjs, a.a_ijs, a.b_ijs)
      [] t = "bond_vibration_harmonic" ->
            bond_vibration_harmonic(qi, qjs, a.d0_ijs, a.k_b_ijs)
      [] t = "angle_vibration_harmonic" ->
            angle_vibration_harmonic(qjs, qi, qjs, a.angle0_isjks, a.k_a_isjks)
      [] t = "dihedral" -> dihedral
      [] t = "improper_dihedral" -> improper_dihedral

\* The caller kept a call of the function called last, made with the same
\* coordinates and parameters as the last call.
SameCallKept ==
    /\ kept.kind = "call"
    /\ kept.term = term
    /\ kept.q_i = q_i
    /\ kept.q_js = q_js
    /\ kept.args = given

AtEquilibrium(k) == Apart(k) /\ Dist(k) = args.d0_ijs[k]

\* C10 (harmonic bond at equilibrium): after bond_vibration_harmonic has
\* returned, for every partner k at distance d0[k] # 0 from the target the
\* pair energy e_ijs[k] is 0 and f_jsi[k] is the zero vector, and, the other
\* partners not coinciding with the target, f_i_total is the sum of the
\* pairwise forces of the other partners alone.
C10_BondAtEquilibrium ==
    (pc = "returned" /\ term = "bond_vibration_harmonic") =>
        \A k \in 1..Len(q_js) :
            AtEquilibrium(k) =>
                /\ ret.e_ijs[k] = Zero
                /\ ret.f_jsi[k] = ZeroVec
                /\ (\A j \in 1..Len(q_js) \ {k} : Apart(j)) =>
                        ret.f_i_total = SumPairForces(Len(q_js), k)

\* A bond call whose first partner is at equilibrium at distance 2 and
\* whose second partner is stretched and pulls on the target.
C10_Witness ==
    /\ pc = "returned"
    /\ term = "bond_vibration_harmonic"
    /\ Len(q_js) = 2
    /\ AtEquilibrium(1)
    /\ Dist(1) = R(2)
    /\ Apart(2)
    /\ ~AtEquilibrium(2)
    /\ ret.e_ijs[1] = Zero
    /\ ret.f_i_total # ZeroVec
    /\ ret.f_i_total = KernelPair(2).f

\* --------------------------------------------------------------- C11
IsPositive(x) == x[1] > 0

IsNegative(x) == x[1] < 0

\* The dot product of two vectors of the same length.
Dot(a, b) == SumOf(Array([i \in 1..Len(a) |-> Mul(a[i], b[i])]))

\* The force -2 * k_b * (dist - d0) / dist * rel on the target due to
\* partner k, with rel = q_i - q_js[k].
RestoringForce(k) ==
    VecScale(Div(Mul(Mul(R(-2), args.k_b_ijs[k]),
                     Sub(Dist(k), args.d0_ijs[k])),
                 Dist(k)),
             VecSub(q_i, q_js[k]))

\* C11 (the harmonic bond force is restoring): after
\* bond_vibration_harmonic has returned, for every partner k with
\* k_b[k] > 0 and dist[k] > 0 the force on partner k is the negative of
\* f_k = -2 * k_b[k] * (dist[k] - d0[k]) / dist[k] * (q_i - q_js[k]); f_k
\* points from the target toward the partner when dist[k] > d0[k] and away
\* from it when dist[k] < d0[k], the force on the partner the opposite way;
\* with one partner f_k is the total force returned.
C11_BondForceIsRestoring ==
    (pc = "returned" /\ term = "bond_vibration_harmonic") =>
        \A k \in 1..Len(q_js) :
            (Apart(k) /\ IsPositive(args.k_b_ijs[k])) =>
                LET f_k == RestoringForce(k)
                    toward == VecSub(q_js[k], q_i)
                    stretch == Sub(Dist(k), args.d0_ijs[k])
                IN  /\ ret.f_jsi[k] = VecNeg(f_k)
                    /\ (Len(q_js) = 1 => ret.f_i_total = f_k)
                    /\ IsPositive(stretch) =>
                          /\ IsPositive(Dot(f_k, toward))
                          /\ IsNegative(Dot(ret.f_jsi[k], toward))
                    /\ IsNegative(stretch) =>
                          /\ IsNegative(Dot(f_k, toward))
                          /\ IsPositive(Dot(ret.f_jsi[k], toward))

\* A bond call with positive force constants, the first partner stretched
\* (distance 2, bond length 1) and the second compressed (distance 1, bond
\* length 2).
C11_Witness ==
    /\ pc = "returned"
    /\ term = "bond_vibration_harmonic"
    /\ Len(q_js) = 2
    /\ IsPositive(args.k_b_ijs[1])
    /\ IsPositive(args.k_b_ijs[2])
    /\ Dist(1) = R(2)
    /\ args.d0_ijs[1] = R(1)
    /\ Dist(2) = R(1)
    /\ args.d0_ijs[2] = R(2)
    /\ IsNegative(Dot(ret.f_jsi[1], VecSub(q_js[1], q_i)))
    /\ IsPositive(Dot(ret.f_jsi[2], VecSub(q_js[2], q_i)))

\* --------------------------------------------------------------- C12
\* The component-wise sum of the first n rows of a batch of forces.
RECURSIVE SumRows(_, _)
SumRows(rows, n) ==
    IF n = 0 THEN ZeroVec ELSE VecAdd(SumRows(rows, n - 1), rows[n])

\* C12 (the net force is zero): after coulomb, lennard_jones or
\* bond_vibration_harmonic has returned for a batch without coincident
\* particles, the total force on the target plus the sum of the forces on
\* all partners is zero in every component.
C12_NetForceIsZero ==
    (Done /\ AllApart) =>
        VecAdd(ret.f_i_total, SumRows(ret.f_jsi, Len(ret.f_jsi))) = ZeroVec

\* A call with two partners that feel different non-zero forces which do
\* not cancel each other, so that the target feels a non-zero force too.
C12_Witness ==
    /\ Done
    /\ Len(q_js) = 2
    /\ AllApart
    /\ ret.f_jsi[1] # ZeroVec
    /\ ret.f_jsi[2] # ZeroVec
    /\ ret.f_jsi[1] # ret.f_jsi[2]
    /\ ret.f_i_total # ZeroVec
    /\ VecAdd(ret.f_i_total, VecAdd(ret.f_jsi[1], ret.f_jsi[2])) = ZeroVec

====
